---- MODULE Spec2Model ----
(***************************************************************************)
(* Model of the skin-analysis backend:                                     *)
(*   app/ai/ProductRecommendation.py  catalog parser, profile classifier,  *)
(*                                    catalog cache, product formatter     *)
(*                                    (ProductRecommendationService)       *)
(*   app/ai/AiServices.py             analyze_skin retry loop, the agent   *)
(*                                    tool load_products_for_skin_type     *)
(*   app/main.py                      the /analyze endpoint                *)
(* Each component has its own specification (SpecParse, SpecParseInserted, *)
(* SpecAge, SpecClassify, SpecCache, SpecCacheConc, SpecFormat,            *)
(* SpecAnalyze); the variables of the components a specification does not *)
(* run keep their initial values.                                          *)
(***************************************************************************)
EXTENDS Integers, Sequences, FiniteSets, TLC

VARIABLES
    \* --- _parse_csv_content ---
    docEntries,             \* the entries the document was written from
    content,                \* the document: a sequence of lines
    lineIdx,                \* position of the for loop over lines
    current_product_lines,  \* the current-product buffer
    products,               \* the records parsed so far
    pPc,                    \* "idle" | "loop" | "done"
    inserted,               \* the line put into the document, and where
    \* --- numeric age -> bracket ---
    ageIn, explicitGroup, routineFile, gPc,
    \* --- determine_age_group / determine_routine_complexity ---
    user_responses, ageGroup, routineType, cPc,
    \* --- load_routine and its cache ---
    store, products_cache, storeQueries, loadCalls, lastLoad,
    \* --- get_analysis / analyze_skin ---
    entry, profile, images, aPc, age, complexity, attempt, modelCalls,
    errors, slept, raised, response, toolCalls, toolResult,
    \* --- get_products_by_category / format_products_for_ai ---
    productList, categorized, catIdx, formatted, fPc,
    \* --- concurrent callers of load_routine on the shared service ---
    callKey, callPc, callProducts, callResult

pVars == <<docEntries, content, lineIdx, current_product_lines, products, pPc,
           inserted>>
gVars == <<ageIn, explicitGroup, routineFile, gPc>>
cVars == <<user_responses, ageGroup, routineType, cPc>>
kVars == <<store, products_cache, storeQueries, loadCalls, lastLoad>>
aVars == <<entry, profile, images, aPc, age, complexity, attempt, modelCalls,
           errors, slept, raised, response, toolCalls, toolResult>>
fVars == <<productList, categorized, catIdx, formatted, fPc>>
nVars == <<callKey, callPc, callProducts, callResult>>
vars == <<pVars, gVars, cVars, kVars, aVars, fVars, nVars>>

NoValue == "none"

\* ------------------------------------------------------------------------
\* Bounds of the model
\* ------------------------------------------------------------------------
MaxEntries == 3      \* entries per catalog document
MaxAge == 99         \* numeric ages 0..MaxAge (the age patterns read two digits)
MaxWords == 3        \* words per questionnaire text
MaxLoads == 4        \* load_routine calls per service instance
MaxQuestions == 6    \* questions per profile
MaxToolCalls == 1    \* tool calls of the model inside one agent run
MaxImages == 1       \* images per request
MaxProducts == 3     \* products per list handed to format_products_for_ai
MaxCallers == 2      \* threads calling load_routine on the shared service

\* ------------------------------------------------------------------------
\* Generic helpers
\* ------------------------------------------------------------------------
RECURSIVE Concat(_)
Concat(ss) == IF ss = <<>> THEN <<>> ELSE Head(ss) \o Concat(Tail(ss))

RECURSIVE SumSeq(_)
SumSeq(s) == IF s = <<>> THEN 0 ELSE Head(s) + SumSeq(Tail(s))

SeqsUpTo(S, n) == UNION {[1..k -> S] : k \in 0..n}

Range(s) == {s[i] : i \in 1..Len(s)}

\* ------------------------------------------------------------------------
\* Catalog documents.  A line is a record; `pad` says the raw line carries
\* leading/trailing whitespace, which line.strip() removes.
\*   start : "<name>": {          field : key: ""val""[,]   (ok = the value
\*   close : }                             is a decodable JSON value)
\*   blank : empty or whitespace  header: the 'Opcoes Protetor solar' line
\*   other : any other text (a comment-like line)
\* ------------------------------------------------------------------------
Line(kind, key, val, comma, ok, pad) ==
    [kind |-> kind, key |-> key, val |-> val, comma |-> comma, ok |-> ok, pad |-> pad]
StartLine(name) == Line("start", "", name, FALSE, TRUE, FALSE)
FieldLine(key, val, comma) == Line("field", key, val, comma, TRUE, TRUE)
BadFieldLine(key, val, comma) == Line("field", key, val, comma, FALSE, FALSE)
CloseLine == Line("close", "", 0, FALSE, TRUE, FALSE)
PaddedCloseLine == Line("close", "", 0, FALSE, TRUE, TRUE)
BlankLine == Line("blank", "", 0, FALSE, TRUE, TRUE)
HeaderLine == Line("header", "", 0, FALSE, TRUE, FALSE)
OtherLine == Line("other", "", 0, FALSE, TRUE, FALSE)

\* line = line.strip()
Strip(line) == [line EXCEPT !.pad = FALSE]

\* json.loads of the reconstructed fragment: the lines between the start line
\* and the closing brace must be decodable fields, comma-separated, without a
\* trailing comma.  An empty body decodes to the empty record.
Decodable(buf) ==
    /\ Len(buf) >= 2
    /\ buf[1].kind = "start"
    /\ buf[Len(buf)].kind = "close"
    /\ \A i \in 2..(Len(buf) - 1) :
          /\ buf[i].kind = "field"
          /\ buf[i].ok
          /\ buf[i].comma <=> (i < Len(buf) - 1)

\* The decoded record: a repeated key keeps its last value; the product name
\* on the start line is not part of the record.
Decode(buf) ==
    LET body == 2..(Len(buf) - 1)
        keys == {buf[i].key : i \in body}
        last(k) == CHOOSE i \in body :
                      /\ buf[i].key = k
                      /\ \A j \in body : buf[j].key = k => j <= i
    IN [k \in keys |-> buf[last(k)].val]

\* One iteration of the for loop over lines: st = [buf, out].
ParseLine(st, raw) ==
    LET line == Strip(raw)
        buf1 == IF line.kind = "start" THEN <<line>>
                ELSE IF st.buf # <<>> THEN Append(st.buf, line)
                ELSE st.buf
    IN IF line.kind = "blank" \/ line.kind = "header" THEN st
       ELSE IF buf1 # <<>> /\ line = CloseLine
            THEN [buf |-> <<>>,
                  out |-> IF Decodable(buf1) THEN Append(st.out, Decode(buf1))
                          ELSE st.out]
            ELSE [buf |-> buf1, out |-> st.out]

RECURSIVE ParseFrom(_, _)
ParseFrom(st, lines) ==
    IF lines = <<>> THEN st.out
    ELSE ParseFrom(ParseLine(st, Head(lines)), Tail(lines))

\* lines = content.strip().split('\n'): leading and trailing blank lines go;
\* the empty document splits into one empty line.
RECURSIVE DropLeadingBlank(_)
DropLeadingBlank(doc) ==
    IF doc # <<>> /\ Head(doc).kind = "blank" THEN DropLeadingBlank(Tail(doc)) ELSE doc

RECURSIVE DropTrailingBlank(_)
DropTrailingBlank(doc) ==
    IF doc # <<>> /\ doc[Len(doc)].kind = "blank"
    THEN DropTrailingBlank(SubSeq(doc, 1, Len(doc) - 1)) ELSE doc

SplitLines(doc) ==
    LET stripped == DropTrailingBlank(DropLeadingBlank(doc))
    IN IF stripped = <<>> THEN <<Strip(BlankLine)>> ELSE stripped

\* _parse_csv_content as a function of the document.
ParseCsvContent(doc) == ParseFrom([buf |-> <<>>, out |-> <<>>], SplitLines(doc))

\* The entries documents are written from.  Entry number i carries the values
\* i, so that the records of different entries differ.
EntryShapes == {"well1", "well2", "noClose", "noStart", "badBody", "truncated"}

EntryLines(shape, i) ==
    CASE shape = "well1" ->
            <<StartLine(i), FieldLine("name", i, FALSE), PaddedCloseLine>>
      [] shape = "well2" ->
            <<HeaderLine, StartLine(i), FieldLine("name", i, TRUE), BlankLine,
              FieldLine("sku", i, FALSE), CloseLine>>
      [] shape = "noClose" ->
            <<StartLine(i), FieldLine("name", i, TRUE), FieldLine("sku", i, FALSE)>>
      [] shape = "noStart" ->
            <<FieldLine("name", i, TRUE), FieldLine("sku", i, FALSE), CloseLine>>
      [] shape = "badBody" ->
            <<StartLine(i), BadFieldLine("name", i, FALSE), CloseLine>>
      [] shape = "truncated" ->
            <<StartLine(i), FieldLine("name", i, TRUE)>>

WellFormed(shape) == shape \in {"well1", "well2"}

EntryRecord(shape, i) ==
    IF shape = "well1" THEN [k \in {"name"} |-> i]
    ELSE [k \in {"name", "sku"} |-> i]

DocumentOf(entries) == Concat([i \in 1..Len(entries) |-> EntryLines(entries[i], i)])

\* The records of the well-formed entries, in document order.
RECURSIVE WellFormedRecordsFrom(_, _)
WellFormedRecordsFrom(entries, i) ==
    IF i > Len(entries) THEN <<>>
    ELSE (IF WellFormed(entries[i]) THEN <<EntryRecord(entries[i], i)>> ELSE <<>>)
         \o WellFormedRecordsFrom(entries, i + 1)

WellFormedRecords(entries) == WellFormedRecordsFrom(entries, 1)

\* Lines that are neither a field nor a brace line: the empty line, a line of
\* whitespace, the known header line, any other text.
NonEntryLines == {Strip(BlankLine), BlankLine, HeaderLine, OtherLine}

\* The document with one more line standing at position pos.
InsertAt(doc, pos, line) ==
    SubSeq(doc, 1, pos - 1) \o <<line>> \o SubSeq(doc, pos, Len(doc))

NothingInserted == [pos |-> 0, line |-> Strip(BlankLine)]

\* ------------------------------------------------------------------------
\* Initial values of the components a specification does not run
\* ------------------------------------------------------------------------
ParserIdle ==
    /\ docEntries = <<>> /\ content = <<>> /\ lineIdx = 0
    /\ current_product_lines = <<>> /\ products = <<>> /\ pPc = "idle"
    /\ inserted = NothingInserted

AgeIdle ==
    /\ ageIn = 0 /\ explicitGroup = 0 /\ routineFile = <<>> /\ gPc = "idle"

\* ------------------------------------------------------------------------
\* SpecParse: _parse_csv_content run line by line on a bounded document
\* ------------------------------------------------------------------------
ParseLoopStep ==
    /\ pPc = "loop"
    /\ lineIdx <= Len(SplitLines(content))
    /\ LET st == ParseLine([buf |-> current_product_lines, out |-> products],
                           SplitLines(content)[lineIdx])
       IN /\ current_product_lines' = st.buf
          /\ products' = st.out
    /\ lineIdx' = lineIdx + 1
    /\ UNCHANGED <<docEntries, content, pPc, inserted, gVars, cVars, kVars, aVars, fVars, nVars>>

ParseReturn ==
    /\ pPc = "loop"
    /\ lineIdx > Len(SplitLines(content))
    /\ pPc' = "done"
    /\ UNCHANGED <<docEntries, content, lineIdx, current_product_lines, products,
                   inserted, gVars, cVars, kVars, aVars, fVars, nVars>>

\* ------------------------------------------------------------------------
\* Numeric age -> age bracket
\* ------------------------------------------------------------------------
\* determine_age_group, the branch taken once an age pattern matched.
AgeGroupOfExplicitAge(a) ==
    IF a < 30 THEN 1 ELSE IF a < 45 THEN 2 ELSE 3

get_age_category(a) ==
    IF a <= 30 THEN 1 ELSE IF a <= 45 THEN 2 ELSE 3

SkinTypeValues == {"seca", "mista", "oleosa", "normal"}

\* skin_type.value.upper()
UpperOfSkinType(v) ==
    CASE v = "seca" -> "SECA" [] v = "mista" -> "MISTA"
      [] v = "oleosa" -> "OLEOSA" [] v = "normal" -> "NORMAL"

\* The file "Rotinas - <SKIN> - <complexity> - <age category>.csv", as the
\* triple the name is formatted from.
get_routine_file(skin_type, a, cx) ==
    <<UpperOfSkinType(skin_type), cx, get_age_category(a)>>

ExplicitAgeBranch ==
    /\ gPc = "start"
    /\ explicitGroup = 0
    /\ explicitGroup' = AgeGroupOfExplicitAge(ageIn)
    /\ UNCHANGED <<ageIn, routineFile, gPc, pVars, cVars, kVars, aVars, fVars, nVars>>

GetRoutineFile ==
    /\ gPc = "start"
    /\ routineFile = <<>>
    /\ \E st \in SkinTypeValues, cx \in {"SIMPLES", "COMPLETA"} :
          routineFile' = get_routine_file(st, ageIn, cx)
    /\ UNCHANGED <<ageIn, explicitGroup, gPc, pVars, cVars, kVars, aVars, fVars, nVars>>

\* ------------------------------------------------------------------------
\* Questionnaire text.  A text is a sequence of tokens separated by blanks:
\* a word (s, with caps saying it is written with capital letters) or a
\* two-digit number (n >= 0).
\* ------------------------------------------------------------------------
W(s) == [s |-> s, caps |-> FALSE, n |-> -1]
Caps(s) == [s |-> s, caps |-> TRUE, n |-> -1]
Num(n) == [s |-> "#", caps |-> FALSE, n |-> n]

\* user_responses.lower()
Lower(text) == [i \in 1..Len(text) |-> [text[i] EXCEPT !.caps = FALSE]]

\* Words of the vocabulary that hold a keyword as a proper substring.
ProperSubstrings == {<<"madura", "madur">>, <<"completamente", "completa">>}

TokenContains(tok, kwTok) ==
    \/ tok = kwTok
    \/ tok.n = -1 /\ kwTok.n = -1 /\ ~tok.caps /\ <<tok.s, kwTok.s>> \in ProperSubstrings

\* keyword in user_lower, for a keyword of one or more tokens
Occurs(kw, text) ==
    \E i \in 1..(Len(text) - Len(kw) + 1) :
        \A j \in 1..Len(kw) : TokenContains(text[i + j - 1], kw[j])

Hits(kws, text) == Cardinality({kw \in kws : Occurs(kw, text)})

\* The three age patterns, (\d{2})\s*anos, idade[:\s]+(\d{2}), tenho\s+(\d{2}):
\* the positions of the number of each match.
AgeMatches(pat, text) ==
    {i \in 1..Len(text) :
        /\ text[i].n >= 0
        /\ CASE pat = 1 -> i < Len(text) /\ text[i + 1] = W("anos")
             [] pat = 2 -> i > 1 /\ text[i - 1] = W("idade")
             [] pat = 3 -> i > 1 /\ text[i - 1] = W("tenho")}

Min(S) == CHOOSE x \in S : \A y \in S : x <= y

\* re.search: the leftmost match of the first pattern that matches.
HasExplicitAge(text) == \E pat \in 1..3 : AgeMatches(pat, text) # {}

ExplicitAge(text) ==
    LET pat == Min({q \in 1..3 : AgeMatches(q, text) # {}})
    IN text[Min(AgeMatches(pat, text))].n

young_keywords ==
    {<<W("jovem")>>, <<W("novo")>>, <<W("nova")>>, <<Num(20), W("anos")>>,
     <<W("vinte")>>, <<W("adolescent")>>, <<W("início")>>, <<W("prevenção")>>,
     <<W("primeira"), W("rotina")>>}

middle_keywords ==
    {<<W("trinta")>>, <<Num(30)>>, <<Num(35)>>, <<Num(40)>>, <<W("meia"), W("idade")>>,
     <<W("primeiras"), W("rugas")>>, <<W("sinais"), W("de"), W("idade")>>,
     <<W("preventivo")>>}

mature_keywords ==
    {<<Num(45)>>, <<Num(50)>>, <<Num(55)>>, <<Num(60)>>, <<W("quarenta")>>,
     <<W("cinquenta")>>, <<W("madur")>>, <<W("rugas"), W("profundas")>>,
     <<W("flacidez")>>, <<W("anti-idade")>>, <<W("rejuvenescimento")>>,
     <<W("lifting")>>}

young_score(text) == Hits(young_keywords, Lower(text))
middle_score(text) == Hits(middle_keywords, Lower(text))
mature_score(text) == Hits(mature_keywords, Lower(text))

\* Variant that keeps the last key holding the greatest score.
MaxGroupLast(y, m, ma) ==
    IF ma >= m /\ ma >= y THEN 3 ELSE IF m >= y THEN 2 ELSE 1

\* max(scores, key=scores.get) over {1: young, 2: middle, 3: mature}: the
\* first key, in insertion order, that holds the greatest score.
MaxGroup(y, m, ma) ==
    IF y >= m /\ y >= ma THEN 1 ELSE IF m >= ma THEN 2 ELSE 3

ScoreOfGroup(g, y, m, ma) == IF g = 1 THEN y ELSE IF g = 2 THEN m ELSE ma

determine_age_group(text) ==
    LET lower == Lower(text)
        y == young_score(text)
        m == middle_score(text)
        ma == mature_score(text)
        max_group == MaxGroup(y, m, ma)
    IN IF HasExplicitAge(lower) THEN AgeGroupOfExplicitAge(ExplicitAge(lower))
       ELSE IF ScoreOfGroup(max_group, y, m, ma) = 0 THEN 1
       ELSE max_group

simple_keywords ==
    {<<W("simples")>>, <<W("básico")>>, <<W("básica")>>, <<W("iniciante")>>,
     <<W("começando")>>, <<W("poucos"), W("produtos")>>, <<W("rápido")>>,
     <<W("rápida")>>, <<W("prático")>>, <<W("prática")>>, <<W("orçamento")>>,
     <<W("barato")>>, <<W("econômico")>>, <<W("primeiro")>>, <<W("primeira")>>,
     <<W("mínimo")>>, <<W("mínima")>>, <<W("essencial")>>, <<W("começo")>>}

complete_keywords ==
    {<<W("completo")>>, <<W("completa")>>, <<W("avançado")>>, <<W("avançada")>>,
     <<W("intensivo")>>, <<W("intensiva")>>, <<W("detalhado")>>, <<W("detalhada")>>,
     <<W("múltiplos")>>, <<W("múltiplas")>>, <<W("várias")>>, <<W("vários")>>,
     <<W("muitas"), W("preocupações")>>, <<W("muitos"), W("problemas")>>,
     <<W("problemas")>>, <<W("preocupações")>>, <<W("resultados"), W("rápidos")>>,
     <<W("eficaz")>>, <<W("potente")>>, <<W("tratamento"), W("completo")>>,
     <<W("anti-idade")>>, <<W("rugas")>>, <<W("manchas")>>, <<W("acne"), W("severa")>>,
     <<W("melasma")>>, <<W("flacidez")>>, <<W("rejuvenescimento")>>,
     <<W("tratamento"), W("intensivo")>>}

simple_score(text) == Hits(simple_keywords, Lower(text))
complete_score(text) == Hits(complete_keywords, Lower(text))

ExplicitComplete(text) ==
    Occurs(<<W("completa")>>, Lower(text)) \/ Occurs(<<W("completo")>>, Lower(text))

ExplicitSimple(text) ==
    \/ Occurs(<<W("simples")>>, Lower(text))
    \/ Occurs(<<W("básica")>>, Lower(text))
    \/ Occurs(<<W("básico")>>, Lower(text))

\* Variant that tests the explicit simple terms before the complete ones.
DetermineRoutineComplexitySimpleFirst(text) ==
    IF ExplicitSimple(text) THEN "SIMPLES"
    ELSE IF ExplicitComplete(text) THEN "COMPLETA"
    ELSE IF complete_score(text) > simple_score(text) THEN "COMPLETA"
    ELSE "SIMPLES"

determine_routine_complexity(text) ==
    IF ExplicitComplete(text) THEN "COMPLETA"
    ELSE IF ExplicitSimple(text) THEN "SIMPLES"
    ELSE IF complete_score(text) > simple_score(text) THEN "COMPLETA"
    ELSE "SIMPLES"

\* The words questionnaire texts are drawn from.
Vocabulary ==
    {W("completa"), Caps("simples"), W("rápido"), W("rugas"), W("flacidez"),
     W("preventivo"), W("jovem"), W("madura"), Caps("tenho"), W("anos"),
     Num(29), Num(30), Num(45), W("pele")}

ClassifierIdle ==
    /\ user_responses = <<>> /\ ageGroup = 0 /\ routineType = NoValue /\ cPc = "idle"

\* get_recommendation_info: determine_age_group, then
\* determine_routine_complexity.
DetermineAgeGroup ==
    /\ cPc = "start"
    /\ ageGroup' = determine_age_group(user_responses)
    /\ cPc' = "age"
    /\ UNCHANGED <<user_responses, routineType, pVars, gVars, kVars, aVars, fVars, nVars>>

DetermineRoutineComplexity ==
    /\ cPc = "age"
    /\ routineType' = determine_routine_complexity(user_responses)
    /\ cPc' = "done"
    /\ UNCHANGED <<user_responses, ageGroup, pVars, gVars, kVars, aVars, fVars, nVars>>

\* ------------------------------------------------------------------------
\* load_routine and the products cache of one service instance
\* ------------------------------------------------------------------------
\* The catalog keys the calls are drawn from.
CatalogKeys == {<<"SECA", "SIMPLES", 1>>, <<"NORMAL", "COMPLETA", 3>>}

\* cache_key = f"{skin_type}_{routine_type}_{age_group}" and the file name
\* "Rotinas - {skin_type} - {routine_type} - {age_group}.csv": over the
\* Literal values of the three parts both are one-to-one, so the triple
\* stands for either.
CacheKey(skin_type, routine_type, age_group) == <<skin_type, routine_type, age_group>>

\* What the data directory holds for a key: no file, a file that cannot be
\* read as UTF-8 text, or a document.
Missing == [kind |-> "missing", doc |-> <<>>]
Unreadable == [kind |-> "unreadable", doc |-> <<>>]
Text(doc) == [kind |-> "text", doc |-> doc]

StoreValues ==
    {Missing, Unreadable, Text(<<>>), Text(DocumentOf(<<"well1">>)),
     Text(DocumentOf(<<"badBody", "well2">>))}

\* Variant that reads the data directory without looking in the cache.
LoadRoutineOutcomeNoCacheLookup(cache, st, key) ==
    IF st[key].kind = "text"
    THEN [touch |-> TRUE, insert |-> TRUE, result |-> ParseCsvContent(st[key].doc)]
    ELSE [touch |-> TRUE, insert |-> FALSE, result |-> <<>>]

\* load_routine for a key: [touch: the data directory is looked at,
\* insert: the result goes into the cache, result: what is returned].
LoadRoutineOutcome(cache, st, key) ==
    IF key \in DOMAIN cache
    THEN [touch |-> FALSE, insert |-> FALSE, result |-> cache[key]]
    ELSE IF st[key].kind = "missing"
    THEN [touch |-> TRUE, insert |-> FALSE, result |-> <<>>]
    ELSE IF st[key].kind = "unreadable"
    THEN [touch |-> TRUE, insert |-> FALSE, result |-> <<>>]
    ELSE [touch |-> TRUE, insert |-> TRUE, result |-> ParseCsvContent(st[key].doc)]

CacheIdle ==
    /\ store = [k \in CatalogKeys |-> Missing]
    /\ products_cache = <<>>
    /\ storeQueries = [k \in CatalogKeys |-> 0]
    /\ loadCalls = [k \in CatalogKeys |-> 0]
    /\ lastLoad = [key |-> <<>>, fromCache |-> FALSE, result |-> <<>>]

RECURSIVE SumOver(_, _)
SumOver(f, S) ==
    IF S = {} THEN 0
    ELSE LET k == CHOOSE x \in S : TRUE IN f[k] + SumOver(f, S \ {k})

TotalLoads == SumOver(loadCalls, CatalogKeys)

LoadRoutine ==
    /\ TotalLoads < MaxLoads
    /\ \E key \in CatalogKeys :
          LET o == LoadRoutineOutcome(products_cache, store,
                                      CacheKey(key[1], key[2], key[3]))
          IN /\ loadCalls' = [loadCalls EXCEPT ![key] = @ + 1]
             /\ storeQueries' = IF o.touch THEN [storeQueries EXCEPT ![key] = @ + 1]
                                 ELSE storeQueries
             /\ products_cache' =
                    IF o.insert
                    THEN [k \in DOMAIN products_cache \cup {key} |->
                             IF k = key THEN o.result ELSE products_cache[k]]
                    ELSE products_cache
             /\ lastLoad' = [key |-> key, fromCache |-> ~o.touch, result |-> o.result]
    /\ UNCHANGED <<store, pVars, gVars, cVars, aVars, fVars, nVars>>

\* ------------------------------------------------------------------------
\* get_analysis (POST /analyze) and analyze_skin
\* ------------------------------------------------------------------------
max_retries == 2
retry_delay == 60
default_age == 30
complexity_length_threshold == 150
complexity_question_threshold == 5

\* A profile: the length of each question's answer, whether the object has
\* an age attribute, and its value (NoAge: None).
NoAge == -1
AnswerLens == {0, 75, 76}
ProfileAges == {NoAge, 25, 46}

Profile(qs, hasAge, a) == [questions |-> qs, hasAge |-> hasAge, age |-> a]

\* SkinProfileRequest declares questions and others only: a profile built by
\* model_validate_json has no age attribute.
ValidatedProfiles ==
    {Profile(qs, FALSE, NoAge) : qs \in SeqsUpTo(AnswerLens, MaxQuestions)}

\* analyze_skin reads skin_profile.age: callers may hand it any object that
\* has the attribute.
ProfilesWithAge ==
    {Profile(qs, TRUE, a) : qs \in SeqsUpTo(AnswerLens, MaxQuestions), a \in ProfileAges}

\* An uploaded image, by what process_images does with it.
ImageKinds == {"jpeg", "heic", "heic_bad", "read_fails"}
\* images: List[UploadFile] = File(...): a request without any image is
\* answered 422 before get_analysis runs.
ImageLists == SeqsUpTo(ImageKinds, MaxImages) \ {<<>>}

NoException == [type |-> "none", status |-> 0]
HTTPException(status) == [type |-> "HTTPException", status |-> status]
AttributeError == [type |-> "AttributeError", status |-> 0]

\* process_images: the exception it raises, or NoException.
RECURSIVE ProcessImagesFrom(_)
ProcessImagesFrom(imgs) ==
    IF imgs = <<>> THEN NoException
    ELSE IF Head(imgs) = "read_fails" THEN HTTPException(500)
    ELSE IF Head(imgs) = "heic_bad" THEN HTTPException(400)
    ELSE ProcessImagesFrom(Tail(imgs))

process_images(imgs) ==
    IF imgs = <<>> THEN HTTPException(400) ELSE ProcessImagesFrom(imgs)

\* The texts of the exceptions dermage_agent.run raises, by the markers
\* they contain.
ErrorTexts == {{}, {"RESOURCE_EXHAUSTED"}, {"429"}}

IsQuotaError(error_message) ==
    "RESOURCE_EXHAUSTED" \in error_message \/ "429" \in error_message

\* age = skin_profile.age if skin_profile.age else 30
DerivedAge(p) == IF p.age # NoAge /\ p.age # 0 THEN p.age ELSE default_age

total_answer_length(p) == SumSeq(p.questions)

\* Variant with the length threshold inclusive.
DerivedComplexityInclusive(p) ==
    IF total_answer_length(p) >= complexity_length_threshold
       \/ Len(p.questions) > complexity_question_threshold
    THEN "COMPLETA" ELSE "SIMPLES"

DerivedComplexity(p) ==
    IF total_answer_length(p) > complexity_length_threshold
       \/ Len(p.questions) > complexity_question_threshold
    THEN "COMPLETA" ELSE "SIMPLES"

\* Variant of the except branch that tests the attempt number first and so
\* raises 500 for every last attempt, quota error or not.
ExceptBranchAttemptFirst(error_message, att) ==
    IF att < max_retries - 1
    THEN [sleep |-> IF IsQuotaError(error_message) THEN retry_delay
                    ELSE retry_delay * (att + 1),
          raise |-> NoException]
    ELSE [sleep |-> 0, raise |-> HTTPException(500)]

\* Variant that awaits the backoff before raising as well, scaled by the
\* attempt number for every kind of error.
ExceptBranchWaitsBeforeRaising(error_message, att) ==
    [sleep |-> retry_delay * (att + 1),
     raise |-> IF att < max_retries - 1 THEN NoException
               ELSE IF IsQuotaError(error_message) THEN HTTPException(429)
               ELSE HTTPException(500)]

\* The except branch of the retry loop for the error of attempt number att:
\* the sleep it awaits (0: none) and the exception it raises.
ExceptBranch(error_message, att) ==
    IF IsQuotaError(error_message)
    THEN IF att < max_retries - 1
         THEN [sleep |-> retry_delay, raise |-> NoException]
         ELSE [sleep |-> 0, raise |-> HTTPException(429)]
    ELSE IF att < max_retries - 1
         THEN [sleep |-> retry_delay * (att + 1), raise |-> NoException]
         ELSE [sleep |-> 0, raise |-> HTTPException(500)]

\* The skin types the model may pass to the tool, as written.
SkinTypeInputs == {W("seca"), Caps("normal"), W("oleosa"), W("sensível"), Caps("acneica")}

NoToolResult == [kind |-> "none", skin |-> "", file |-> <<>>]

\* Variant that loads the NORMAL catalog for an unrecognized skin type.
LoadProductsDefaultingToNormal(skin_type, a, cx, readable) ==
    LET skin_type_lower == [skin_type EXCEPT !.caps = FALSE].s
        known == IF skin_type_lower \in SkinTypeValues THEN skin_type_lower ELSE "normal"
    IN [kind |-> IF readable THEN "products" ELSE "load_error",
        skin |-> skin_type_lower,
        file |-> get_routine_file(known, a, cx)]

\* load_products_for_skin_type: the text it returns to the model, by kind.
\* readable: load_products_csv can open and read the routine file.
load_products_for_skin_type(skin_type, a, cx, readable) ==
    LET skin_type_lower == [skin_type EXCEPT !.caps = FALSE].s
    IN IF skin_type_lower \notin SkinTypeValues
       THEN [kind |-> "invalid", skin |-> skin_type_lower, file |-> <<>>]
       ELSE IF readable
       THEN [kind |-> "products", skin |-> skin_type_lower,
             file |-> get_routine_file(skin_type_lower, a, cx)]
       ELSE [kind |-> "load_error", skin |-> skin_type_lower,
             file |-> get_routine_file(skin_type_lower, a, cx)]

AnalyzeIdle ==
    /\ entry = NoValue /\ profile = Profile(<<>>, FALSE, NoAge) /\ images = <<>>
    /\ aPc = "idle" /\ age = 0 /\ complexity = NoValue /\ attempt = 0
    /\ modelCalls = 0 /\ errors = <<>> /\ slept = <<>> /\ raised = NoException
    /\ response = 0 /\ toolCalls = 0 /\ toolResult = NoToolResult

\* POST /analyze: get_skin_profile validated the form data.
GetAnalysis ==
    /\ aPc = "idle"
    /\ \E p \in ValidatedProfiles, imgs \in ImageLists :
          /\ profile' = p
          /\ images' = imgs
    /\ entry' = "http"
    /\ aPc' = "process_images"
    /\ UNCHANGED <<age, complexity, attempt, modelCalls, errors, slept, raised,
                   response, toolCalls, toolResult, pVars, gVars, cVars, kVars, fVars, nVars>>

ProcessImages ==
    /\ aPc = "process_images"
    /\ raised' = process_images(images)
    /\ aPc' = IF process_images(images) = NoException THEN "analyze_skin" ELSE "raised"
    /\ UNCHANGED <<entry, profile, images, age, complexity, attempt, modelCalls,
                   errors, slept, response, toolCalls, toolResult,
                   pVars, gVars, cVars, kVars, fVars, nVars>>

\* analyze_skin called with a request whose profile has an age attribute.
CallAnalyzeSkin ==
    /\ aPc = "idle"
    /\ \E p \in ProfilesWithAge : profile' = p
    /\ entry' = "direct"
    /\ aPc' = "analyze_skin"
    /\ UNCHANGED <<images, age, complexity, attempt, modelCalls, errors, slept,
                   raised, response, toolCalls, toolResult, pVars, gVars, cVars, kVars, fVars, nVars>>

\* analyze_skin up to the retry loop: the age, the complexity, the deps.
AnalyzeSkinPrepare ==
    /\ aPc = "analyze_skin"
    /\ IF ~profile.hasAge
       THEN /\ raised' = AttributeError
            /\ aPc' = "raised"
            /\ UNCHANGED <<age, complexity, fVars, nVars>>
       ELSE /\ age' = DerivedAge(profile)
            /\ complexity' = DerivedComplexity(profile)
            /\ aPc' = "loop"
            /\ UNCHANGED raised
    /\ attempt' = 0
    /\ UNCHANGED <<entry, profile, images, modelCalls, errors, slept, response,
                   toolCalls, toolResult, pVars, gVars, cVars, kVars, fVars, nVars>>

\* for attempt in range(max_retries): the next dermage_agent.run, or the end
\* of the loop, after which the function returns None.
LoopHead ==
    /\ aPc = "loop"
    /\ IF attempt < max_retries
       THEN /\ aPc' = "running"
            /\ modelCalls' = modelCalls + 1
       ELSE /\ aPc' = "returned_none"
            /\ UNCHANGED modelCalls
    /\ toolCalls' = 0
    /\ toolResult' = NoToolResult
    /\ UNCHANGED <<entry, profile, images, age, complexity, attempt, errors, slept,
                   raised, response, pVars, gVars, cVars, kVars, fVars, nVars>>

\* The model calls the tool during the run.
ToolCall ==
    /\ aPc = "running"
    /\ toolCalls < MaxToolCalls
    /\ \E st \in SkinTypeInputs, readable \in BOOLEAN :
          toolResult' = load_products_for_skin_type(st, age, complexity, readable)
    /\ toolCalls' = toolCalls + 1
    /\ UNCHANGED <<entry, profile, images, aPc, age, complexity, attempt, modelCalls,
                   errors, slept, raised, response, pVars, gVars, cVars, kVars, fVars, nVars>>

\* dermage_agent.run returns: return result.data
ModelSucceeds ==
    /\ aPc = "running"
    /\ aPc' = "returned"
    /\ toolCalls' = 0
    /\ toolResult' = NoToolResult
    /\ UNCHANGED <<entry, profile, images, age, complexity, attempt, modelCalls,
                   errors, slept, raised, response, pVars, gVars, cVars, kVars, fVars, nVars>>

\* dermage_agent.run raises: the except branch.
ModelFails ==
    /\ aPc = "running"
    /\ \E e \in ErrorTexts :
          LET b == ExceptBranch(e, attempt)
          IN /\ errors' = Append(errors, e)
             /\ raised' = b.raise
             /\ slept' = IF b.sleep > 0 THEN Append(slept, b.sleep) ELSE slept
             /\ aPc' = IF b.raise # NoException THEN "raised"
                        ELSE IF b.sleep > 0 THEN "sleeping" ELSE "next"
    /\ toolCalls' = 0
    /\ toolResult' = NoToolResult
    /\ UNCHANGED <<entry, profile, images, age, complexity, attempt, modelCalls,
                   response, pVars, gVars, cVars, kVars, fVars, nVars>>

\* asyncio.sleep returns (or the branch awaited nothing): the next iteration.
NextAttempt ==
    /\ aPc \in {"sleeping", "next"}
    /\ attempt' = attempt + 1
    /\ aPc' = "loop"
    /\ UNCHANGED <<entry, profile, images, age, complexity, modelCalls, errors,
                   slept, raised, response, toolCalls, toolResult,
                   pVars, gVars, cVars, kVars, fVars, nVars>>

\* The status get_analysis answers with when `exc` was raised inside its try:
\* except Exception catches it, HTTPException included, and raises
\* HTTPException(500).
GetAnalysisStatus(exc) == 500

\* get_analysis: return await analyze_skin(...), or the except clause.
GetAnalysisRespond ==
    /\ entry = "http"
    /\ aPc \in {"returned", "returned_none", "raised"}
    /\ response' = IF aPc = "returned" THEN 200 ELSE GetAnalysisStatus(raised)
    /\ aPc' = "responded"
    /\ UNCHANGED <<entry, profile, images, age, complexity, attempt, modelCalls,
                   errors, slept, raised, toolCalls, toolResult,
                   pVars, gVars, cVars, kVars, fVars, nVars>>

\* ------------------------------------------------------------------------
\* get_products_by_category and format_products_for_ai
\* ------------------------------------------------------------------------
\* A product is a dict: a function from the keys it has to their values.
ProductNames == {"Gel", "Creme"}
ProductCategories == {"Limpeza", "Hidratante", "Outros"}

ProductValues ==
    {[k \in {"name", "category"} |-> IF k = "name" THEN n ELSE c] :
        n \in ProductNames, c \in ProductCategories}
    \cup {[k \in {"name"} |-> n] : n \in ProductNames}
    \cup {[k \in {"category"} |-> c] : c \in ProductCategories}
    \cup {<<>>}

\* product.get(key, default)
Get(product, key, default) ==
    IF key \in DOMAIN product THEN product[key] ELSE default

\* The formatted text, as the sequence of its blocks: the no-products marker,
\* the preamble, a "## <category>" header, or the five lines of one product
\* (of which the model keeps the name line).
OutLine(kind, text) == [kind |-> kind, text |-> text]
NoProductsMarker == OutLine("marker", "NENHUM PRODUTO DISPONIVEL")
Preamble == OutLine("preamble", "PRODUTOS DISPONIVEIS PARA RECOMENDACAO")
HeaderBlock(category) == OutLine("header", category)
ProductBlock(product) == OutLine("product", Get(product, "name", "N/A"))

\* The dict `categorized`, in insertion order: a sequence of
\* [category, items].
HasCategory(cz, category) == \E i \in 1..Len(cz) : cz[i].category = category

\* Variant that starts the category's list again at every product.
AddToCategoryOverwriting(cz, product) ==
    LET category == Get(product, "category", "Outros")
    IN IF HasCategory(cz, category)
       THEN [i \in 1..Len(cz) |->
                IF cz[i].category = category
                THEN [cz[i] EXCEPT !.items = <<product>>] ELSE cz[i]]
       ELSE Append(cz, [category |-> category, items |-> <<product>>])

\* One iteration of the loop of get_products_by_category.
AddToCategory(cz, product) ==
    LET category == Get(product, "category", "Outros")
    IN IF HasCategory(cz, category)
       THEN [i \in 1..Len(cz) |->
                IF cz[i].category = category
                THEN [cz[i] EXCEPT !.items = Append(@, product)] ELSE cz[i]]
       ELSE Append(cz, [category |-> category, items |-> <<product>>])

\* for category, items in categorized.items(): the header, then the products.
SectionBlocks(section) ==
    <<HeaderBlock(section.category)>>
    \o [j \in 1..Len(section.items) |-> ProductBlock(section.items[j])]

FormatIdle ==
    /\ productList = <<>> /\ categorized = <<>> /\ catIdx = 0
    /\ formatted = <<>> /\ fPc = "idle"

\* format_products_for_ai up to the call of get_products_by_category.
FormatStart ==
    /\ fPc = "start"
    /\ IF productList = <<>>
       THEN /\ formatted' = <<NoProductsMarker>>
            /\ fPc' = "done"
            /\ UNCHANGED catIdx
       ELSE /\ catIdx' = 1
            /\ fPc' = "categorize"
            /\ UNCHANGED formatted
    /\ UNCHANGED <<productList, categorized, pVars, gVars, cVars, kVars, aVars, nVars>>

CategorizeStep ==
    /\ fPc = "categorize"
    /\ catIdx <= Len(productList)
    /\ categorized' = AddToCategory(categorized, productList[catIdx])
    /\ catIdx' = catIdx + 1
    /\ UNCHANGED <<productList, formatted, fPc, pVars, gVars, cVars, kVars, aVars, nVars>>

\* get_products_by_category returns; the sections are written out.
FormatSections ==
    /\ fPc = "categorize"
    /\ catIdx > Len(productList)
    /\ formatted' = <<Preamble>>
                    \o Concat([i \in 1..Len(categorized) |-> SectionBlocks(categorized[i])])
    /\ fPc' = "done"
    /\ UNCHANGED <<productList, categorized, catIdx, pVars, gVars, cVars, kVars, aVars, nVars>>

\* ------------------------------------------------------------------------
\* load_routine called from several threads on the shared product_service.
\* The data directory (store) does not change.  A step is one access to the
\* shared dict or to the file system; steps of different callers interleave
\* freely, and no lock is taken.
\* ------------------------------------------------------------------------
Callers == 1..MaxCallers

NotReturned == [returned |-> FALSE, fromCache |-> FALSE, value |-> <<>>]
Returned(fromCache, value) == [returned |-> TRUE, fromCache |-> fromCache, value |-> value]

\* Variant that binds the cache to a new dict holding the one entry.
CacheInsertIntoNewDict(cache, key, value) == [k \in {key} |-> value]

\* self.products_cache[cache_key] = products
CacheInsert(cache, key, value) ==
    [k \in DOMAIN cache \cup {key} |-> IF k = key THEN value ELSE cache[k]]

CallersIdle ==
    /\ callKey = [c \in Callers |-> <<>>]
    /\ callPc = [c \in Callers |-> "idle"]
    /\ callProducts = [c \in Callers |-> <<>>]
    /\ callResult = [c \in Callers |-> NotReturned]

KeyOf(c) == CacheKey(callKey[c][1], callKey[c][2], callKey[c][3])

\* if cache_key in self.products_cache
CallCheckCache ==
    \E c \in Callers :
        /\ callPc[c] = "start"
        /\ callPc' = [callPc EXCEPT ![c] = IF KeyOf(c) \in DOMAIN products_cache
                                            THEN "hit" ELSE "exists"]
        /\ UNCHANGED <<callKey, callProducts, callResult,
                       pVars, gVars, cVars, kVars, aVars, fVars>>

\* return self.products_cache[cache_key]; a key gone since the test raises
\* KeyError out of load_routine.
CallReturnCached ==
    \E c \in Callers :
        /\ callPc[c] = "hit"
        /\ IF KeyOf(c) \in DOMAIN products_cache
           THEN /\ callResult' = [callResult EXCEPT
                                     ![c] = Returned(TRUE, products_cache[KeyOf(c)])]
                /\ callPc' = [callPc EXCEPT ![c] = "done"]
           ELSE /\ callPc' = [callPc EXCEPT ![c] = "KeyError"]
                /\ UNCHANGED callResult
        /\ UNCHANGED <<callKey, callProducts, pVars, gVars, cVars, kVars, aVars, fVars>>

\* if not filepath.exists(): return []
CallCheckExists ==
    \E c \in Callers :
        /\ callPc[c] = "exists"
        /\ IF store[KeyOf(c)].kind = "missing"
           THEN /\ callResult' = [callResult EXCEPT ![c] = Returned(FALSE, <<>>)]
                /\ callPc' = [callPc EXCEPT ![c] = "done"]
           ELSE /\ callPc' = [callPc EXCEPT ![c] = "read"]
                /\ UNCHANGED callResult
        /\ UNCHANGED <<callKey, callProducts, pVars, gVars, cVars, kVars, aVars, fVars>>

\* content = f.read(); products = self._parse_csv_content(content); a file
\* that cannot be read ends the call in the except branch with [].
CallReadAndParse ==
    \E c \in Callers :
        /\ callPc[c] = "read"
        /\ IF store[KeyOf(c)].kind = "unreadable"
           THEN /\ callResult' = [callResult EXCEPT ![c] = Returned(FALSE, <<>>)]
                /\ callPc' = [callPc EXCEPT ![c] = "done"]
                /\ UNCHANGED callProducts
           ELSE /\ callProducts' = [callProducts EXCEPT
                                       ![c] = ParseCsvContent(store[KeyOf(c)].doc)]
                /\ callPc' = [callPc EXCEPT ![c] = "insert"]
                /\ UNCHANGED callResult
        /\ UNCHANGED <<callKey, pVars, gVars, cVars, kVars, aVars, fVars>>

\* self.products_cache[cache_key] = products
CallInsert ==
    \E c \in Callers :
        /\ callPc[c] = "insert"
        /\ products_cache' = CacheInsert(products_cache, KeyOf(c), callProducts[c])
        /\ callPc' = [callPc EXCEPT ![c] = "return"]
        /\ UNCHANGED <<callKey, callProducts, callResult, store, storeQueries,
                       loadCalls, lastLoad, pVars, gVars, cVars, aVars, fVars>>

\* return products
CallReturn ==
    \E c \in Callers :
        /\ callPc[c] = "return"
        /\ callResult' = [callResult EXCEPT ![c] = Returned(FALSE, callProducts[c])]
        /\ callPc' = [callPc EXCEPT ![c] = "done"]
        /\ UNCHANGED <<callKey, callProducts, pVars, gVars, cVars, kVars, aVars, fVars>>

\* ------------------------------------------------------------------------
\* Specifications
\* ------------------------------------------------------------------------
InitParse ==
    /\ docEntries \in SeqsUpTo(EntryShapes, MaxEntries)
    /\ content = DocumentOf(docEntries)
    /\ lineIdx = 1
    /\ current_product_lines = <<>>
    /\ products = <<>>
    /\ pPc = "loop"
    /\ inserted = NothingInserted
    /\ AgeIdle /\ ClassifierIdle /\ CacheIdle /\ AnalyzeIdle /\ FormatIdle /\ CallersIdle

NextParse == ParseLoopStep \/ ParseReturn

SpecParse == InitParse /\ [][NextParse]_vars

\* Documents of well-formed entries with one non-entry line put in anywhere.
InitParseInserted ==
    /\ docEntries \in SeqsUpTo({"well1", "well2"}, MaxEntries) \ {<<>>}
    /\ inserted \in [pos : 1..(Len(DocumentOf(docEntries)) + 1), line : NonEntryLines]
    /\ content = InsertAt(DocumentOf(docEntries), inserted.pos, inserted.line)
    /\ lineIdx = 1
    /\ current_product_lines = <<>>
    /\ products = <<>>
    /\ pPc = "loop"
    /\ AgeIdle /\ ClassifierIdle /\ CacheIdle /\ AnalyzeIdle /\ FormatIdle /\ CallersIdle

SpecParseInserted == InitParseInserted /\ [][NextParse]_vars

InitAge ==
    /\ ageIn \in 0..MaxAge
    /\ explicitGroup = 0
    /\ routineFile = <<>>
    /\ gPc = "start"
    /\ ParserIdle /\ ClassifierIdle /\ CacheIdle /\ AnalyzeIdle /\ FormatIdle /\ CallersIdle

NextAge == ExplicitAgeBranch \/ GetRoutineFile

SpecAge == InitAge /\ [][NextAge]_vars

InitClassify ==
    /\ user_responses \in SeqsUpTo(Vocabulary, MaxWords)
    /\ ageGroup = 0
    /\ routineType = NoValue
    /\ cPc = "start"
    /\ ParserIdle /\ AgeIdle /\ CacheIdle /\ AnalyzeIdle /\ FormatIdle /\ CallersIdle

NextClassify == DetermineAgeGroup \/ DetermineRoutineComplexity

SpecClassify == InitClassify /\ [][NextClassify]_vars

InitCache ==
    /\ store \in [CatalogKeys -> StoreValues]
    /\ products_cache = <<>>
    /\ storeQueries = [k \in CatalogKeys |-> 0]
    /\ loadCalls = [k \in CatalogKeys |-> 0]
    /\ lastLoad = [key |-> <<>>, fromCache |-> FALSE, result |-> <<>>]
    /\ ParserIdle /\ AgeIdle /\ ClassifierIdle /\ AnalyzeIdle /\ FormatIdle /\ CallersIdle

NextCache == LoadRoutine

SpecCache == InitCache /\ [][NextCache]_vars

InitAnalyze == ParserIdle /\ AgeIdle /\ ClassifierIdle /\ CacheIdle /\ AnalyzeIdle /\ FormatIdle /\ CallersIdle

NextAnalyze ==
    \/ GetAnalysis \/ ProcessImages \/ CallAnalyzeSkin \/ AnalyzeSkinPrepare
    \/ LoopHead \/ ToolCall \/ ModelSucceeds \/ ModelFails \/ NextAttempt
    \/ GetAnalysisRespond

SpecAnalyze == InitAnalyze /\ [][NextAnalyze]_vars

InitFormat ==
    /\ productList \in SeqsUpTo(ProductValues, MaxProducts)
    /\ categorized = <<>>
    /\ catIdx = 0
    /\ formatted = <<>>
    /\ fPc = "start"
    /\ ParserIdle /\ AgeIdle /\ ClassifierIdle /\ CacheIdle /\ AnalyzeIdle /\ CallersIdle

NextFormat == FormatStart \/ CategorizeStep \/ FormatSections

SpecFormat == InitFormat /\ [][NextFormat]_vars

InitCacheConc ==
    /\ store \in [CatalogKeys -> StoreValues]
    /\ products_cache = <<>>
    /\ storeQueries = [k \in CatalogKeys |-> 0]
    /\ loadCalls = [k \in CatalogKeys |-> 0]
    /\ lastLoad = [key |-> <<>>, fromCache |-> FALSE, result |-> <<>>]
    /\ callKey \in [Callers -> CatalogKeys]
    /\ callPc = [c \in Callers |-> "start"]
    /\ callProducts = [c \in Callers |-> <<>>]
    /\ callResult = [c \in Callers |-> NotReturned]
    /\ ParserIdle /\ AgeIdle /\ ClassifierIdle /\ AnalyzeIdle /\ FormatIdle

NextCacheConc ==
    \/ CallCheckCache \/ CallReturnCached \/ CallCheckExists
    \/ CallReadAndParse \/ CallInsert \/ CallReturn

SpecCacheConc == InitCacheConc /\ [][NextCacheConc]_vars

\* ------------------------------------------------------------------------
\* Claims on analyze_skin and get_analysis (SpecAnalyze)
\* ------------------------------------------------------------------------
\* C1: one call of analyze_skin invokes the model at most 2 times, whatever
\* the outcomes; once two attempts have failed with a rate-limit signal the
\* call has ended raising HTTPException 429, after exactly 2 invocations.
C1_AtMostTwoAttemptsThenQuota ==
    /\ modelCalls <= 2
    /\ Len(errors) <= 2
    /\ (Len(errors) = 2 /\ IsQuotaError(errors[1]) /\ IsQuotaError(errors[2]))
          => /\ aPc = "raised"
             /\ raised = HTTPException(429)
             /\ modelCalls = 2

C1_Witness ==
    /\ entry = "direct"
    /\ aPc = "raised"
    /\ errors = <<{"RESOURCE_EXHAUSTED"}, {"429"}>>
    /\ raised = HTTPException(429)
    /\ modelCalls = 2

\* C2: the response of POST /analyze has the status of the failure raised
\* inside get_analysis: the status an HTTPException carries (429 of the
\* quota failure, 400 of process_images), 500 for any other exception.
C2_BoundaryKeepsStatus ==
    (entry = "http" /\ aPc = "responded" /\ raised # NoException)
        => response = IF raised.type = "HTTPException" THEN raised.status ELSE 500

ToolWasCalled == toolResult.kind # "none"

\* C5 (as stated): a skin type outside the four known values is treated as
\* NORMAL: the tool loads the NORMAL catalog and returns no error.
C5_UnknownSkinTypeLoadsNormal ==
    (ToolWasCalled /\ toolResult.skin \notin SkinTypeValues)
        => /\ toolResult.kind = "products"
           /\ toolResult.file[1] = "NORMAL"

\* C5 (amended): for a skin type outside the four known values, compared
\* in lower case, the tool loads no catalog and returns the invalid-type
\* error text to the model; nothing is raised and the agent run goes on.
\* A known value, in any case, selects the catalog of that skin type.
C5_UnknownSkinTypeReturnsErrorText ==
    ToolWasCalled =>
        /\ aPc = "running"
        /\ raised = NoException
        /\ IF toolResult.skin \notin SkinTypeValues
           THEN toolResult.kind = "invalid" /\ toolResult.file = <<>>
           ELSE /\ toolResult.kind \in {"products", "load_error"}
                /\ toolResult.file[1] = UpperOfSkinType(toolResult.skin)

C5_Witness ==
    /\ aPc = "running"
    /\ toolResult.skin = "acneica"
    /\ toolResult.kind = "invalid"

\* C7: analyze_skin derives the age before the model is invoked, the
\* explicit age of the profile or else 30, and a profile without an age
\* does not make the request fail.
C7_AgeOrDefaultNeverFails ==
    /\ raised # AttributeError
    /\ aPc = "running" =>
          age = IF profile.hasAge /\ profile.age # NoAge THEN profile.age ELSE 30

\* C8: the complexity handed to the model is COMPLETA iff the answers sum to
\* more than 150 characters or there are more than 5 questions, and SIMPLES
\* otherwise.
C8_ComplexityThresholds ==
    aPc = "running" =>
        /\ complexity \in {"COMPLETA", "SIMPLES"}
        /\ complexity = "COMPLETA"
              <=> (SumSeq(profile.questions) > 150 \/ Len(profile.questions) > 5)

C8_Witness ==
    /\ aPc = "running"
    /\ Len(profile.questions) = 5
    /\ SumSeq(profile.questions) = 150
    /\ complexity = "SIMPLES"

\* ------------------------------------------------------------------------
\* Claims on load_routine (SpecCache)
\* ------------------------------------------------------------------------
\* C3 (as stated): for every key the data directory is queried at most once;
\* the result of the first call is in the cache, the empty result of a key
\* without a document included.
C3_StoreQueriedOncePerKey ==
    \A k \in CatalogKeys :
        /\ storeQueries[k] <= 1
        /\ loadCalls[k] >= 1 => k \in DOMAIN products_cache

\* C3 (amended): for a key whose document exists and can be read, the data
\* directory is queried at most once: the first call inserts the parsed
\* records, an empty parse result included, and later calls return the
\* cached value.  For a key without a readable document nothing is inserted
\* and every call queries the data directory again.
C3_OnlyReadDocumentsAreCached ==
    \A k \in CatalogKeys :
        IF store[k].kind = "text"
        THEN /\ storeQueries[k] <= 1
             /\ loadCalls[k] >= 1 =>
                   /\ k \in DOMAIN products_cache
                   /\ products_cache[k] = ParseCsvContent(store[k].doc)
                   /\ storeQueries[k] = 1
        ELSE /\ k \notin DOMAIN products_cache
             /\ storeQueries[k] = loadCalls[k]

C3_Witness ==
    \E k1, k2 \in CatalogKeys :
        /\ store[k1] = Text(<<>>)
        /\ loadCalls[k1] = 2 /\ storeQueries[k1] = 1
        /\ products_cache[k1] = <<>>
        /\ lastLoad = [key |-> k1, fromCache |-> TRUE, result |-> <<>>]
        /\ store[k2] = Missing
        /\ loadCalls[k2] = 2 /\ storeQueries[k2] = 2

\* ------------------------------------------------------------------------
\* Claims on _parse_csv_content (SpecParse)
\* ------------------------------------------------------------------------
\* C4: for a document of well-formed and malformed entries in any order the
\* parser returns exactly the records of the well-formed entries, in their
\* order.
C4_ExactlyTheWellFormedRecords ==
    pPc = "done" => products = WellFormedRecords(docEntries)

\* ------------------------------------------------------------------------
\* Claims on the age brackets (SpecAge) and the classifier (SpecClassify)
\* ------------------------------------------------------------------------
BracketOfAge(a) == IF a < 30 THEN 1 ELSE IF a < 45 THEN 2 ELSE 3

\* C6: wherever a numeric age is mapped to a bracket, in the explicit-age
\* branch of determine_age_group and in get_age_category for the routine
\* file, the bracket is 1 below 30, 2 from 30 to 44 and 3 from 45.
C6_SameBracketsEverywhere ==
    /\ explicitGroup # 0 => explicitGroup = BracketOfAge(ageIn)
    /\ routineFile # <<>> => routineFile[3] = BracketOfAge(ageIn)

\* C9: determine_routine_complexity has a fixed priority: an explicit
\* complete term gives COMPLETA, also beside a simple term; else an explicit
\* simple or basic term gives SIMPLES; else COMPLETA only for strictly more
\* complete than simple keyword hits, SIMPLES on every tie.
C9_ComplexityPriority ==
    cPc = "done" =>
        LET lower == Lower(user_responses)
            hasComplete == \E i \in 1..Len(lower) : lower[i].s \in {"completa", "completo"}
            hasSimple == \E i \in 1..Len(lower) :
                            lower[i].s \in {"simples", "básica", "básico"}
            cs == Hits(complete_keywords, lower)
            ss == Hits(simple_keywords, lower)
        IN routineType = IF hasComplete THEN "COMPLETA"
                         ELSE IF hasSimple THEN "SIMPLES"
                         ELSE IF cs > ss THEN "COMPLETA"
                         ELSE "SIMPLES"

C9_Witness ==
    /\ cPc = "done"
    /\ user_responses = <<Caps("simples"), W("rápido"), W("completa")>>
    /\ routineType = "COMPLETA"

GroupScores(text) ==
    <<young_score(text), middle_score(text), mature_score(text)>>

TopScore(sc) == CHOOSE x \in Range(sc) : \A y \in Range(sc) : y <= x

TopGroups(sc) == {g \in 1..3 : sc[g] = TopScore(sc)}

KeywordPathTaken == cPc # "start" /\ ~HasExplicitAge(Lower(user_responses))

\* C10 (as stated): without an explicit age the bracket with the strictly
\* highest hit count is returned, and bracket 1 whenever two or more
\* brackets share the highest count.
C10_TieGivesBracketOne ==
    KeywordPathTaken =>
        LET top == TopGroups(GroupScores(user_responses))
        IN ageGroup = IF Cardinality(top) = 1 THEN CHOOSE g \in top : TRUE ELSE 1

\* C10 (amended): without an explicit age the bracket with the strictly
\* highest hit count is returned; when two or more brackets share the
\* highest count the lowest-numbered of them is returned: bracket 1 when it
\* is among them (all counts zero included), bracket 2 on a tie of 2 and 3.
C10_TieGivesLowestBracket ==
    KeywordPathTaken =>
        LET top == TopGroups(GroupScores(user_responses))
        IN ageGroup = CHOOSE g \in top : \A h \in top : g <= h

C10_Witness ==
    /\ cPc = "done"
    /\ ~HasExplicitAge(Lower(user_responses))
    /\ GroupScores(user_responses) = <<0, 1, 1>>
    /\ ageGroup = 2

\* ------------------------------------------------------------------------
\* Claims on format_products_for_ai (SpecFormat)
\* ------------------------------------------------------------------------
CategoryOf(product) == IF "category" \in DOMAIN product THEN product["category"] ELSE "Outros"

\* The categories of a product list, each once, in order of first appearance.
RECURSIVE FirstAppearances(_, _)
FirstAppearances(ps, seen) ==
    IF ps = <<>> THEN <<>>
    ELSE IF CategoryOf(Head(ps)) \in seen THEN FirstAppearances(Tail(ps), seen)
    ELSE <<CategoryOf(Head(ps))>>
         \o FirstAppearances(Tail(ps), seen \cup {CategoryOf(Head(ps))})

IsHeader(b) == b.kind = "header"
IsProduct(b) == b.kind = "product"

HeaderTexts(out) ==
    LET hs == SelectSeq(out, IsHeader) IN [i \in 1..Len(hs) |-> hs[i].text]

\* The product blocks listed under the header of category c: those after the
\* header and before the next header.
BlocksUnder(out, c) ==
    LET h == CHOOSE i \in 1..Len(out) : out[i] = HeaderBlock(c)
        RECURSIVE Run(_)
        Run(i) == IF i > Len(out) \/ ~IsProduct(out[i]) THEN <<>>
                  ELSE <<out[i]>> \o Run(i + 1)
    IN Run(h + 1)

\* The products of category c, in input order, as they are written out.
RECURSIVE ExpectedUnder(_, _)
ExpectedUnder(ps, c) ==
    IF ps = <<>> THEN <<>>
    ELSE (IF CategoryOf(Head(ps)) = c
          THEN <<OutLine("product",
                         IF "name" \in DOMAIN Head(ps) THEN Head(ps)["name"] ELSE "N/A")>>
          ELSE <<>>)
         \o ExpectedUnder(Tail(ps), c)

\* C11: the empty product list is formatted as the no-products marker alone;
\* for a non-empty list the section headers are the categories of the input
\* (a product without category counts as 'Outros'), each once, in order of
\* first appearance; under each header stand exactly the products of that
\* category in input order, and every product block stands under a header, so
\* every product is listed once.
C11_SectionsFollowFirstAppearance ==
    fPc = "done" =>
        IF productList = <<>>
        THEN formatted = <<NoProductsMarker>>
        ELSE /\ Len(formatted) >= 2
             /\ formatted[1] = Preamble
             /\ IsHeader(formatted[2])
             /\ \A i \in 2..Len(formatted) : IsHeader(formatted[i]) \/ IsProduct(formatted[i])
             /\ HeaderTexts(formatted) = FirstAppearances(productList, {})
             /\ \A i \in 1..Len(productList) :
                   BlocksUnder(formatted, CategoryOf(productList[i]))
                       = ExpectedUnder(productList, CategoryOf(productList[i]))
             /\ Len(SelectSeq(formatted, IsProduct)) = Len(productList)

\* A list whose first and third product share a category that the second
\* product does not have, one of them lacking the category key.
C11_Witness ==
    /\ fPc = "done"
    /\ Len(productList) = 3
    /\ CategoryOf(productList[1]) = CategoryOf(productList[3])
    /\ CategoryOf(productList[1]) # CategoryOf(productList[2])
    /\ "category" \notin DOMAIN productList[1]
    /\ "category" \in DOMAIN productList[3]
    /\ Len(SelectSeq(formatted, IsHeader)) = 2

\* ------------------------------------------------------------------------
\* Claims on concurrent load_routine calls (SpecCacheConc)
\* ------------------------------------------------------------------------
\* What the data directory yields for a key: the parse of its document, or
\* the empty list when there is no readable document.
ParseOfKey(key) ==
    IF store[key].kind = "text" THEN ParseCsvContent(store[key].doc) ELSE <<>>

\* C12: under every interleaving of load_routine calls sharing the cache
\* without a lock, no call fails on the cache, a finished call has returned
\* the parse of the document of its own key (the empty list when the key has
\* no readable document), every cache entry is the parse of its key's
\* document, and once a call has seen or inserted the entry of its key the
\* entry stays in the cache with that value; so two calls that raced on the
\* same uncached key both finish with the cache holding that parse.
C12_RacingLoadsAgree ==
    /\ \A k \in DOMAIN products_cache :
          store[k].kind = "text" /\ products_cache[k] = ParseOfKey(k)
    /\ \A c \in Callers :
          /\ callPc[c] # "KeyError"
          /\ callPc[c] = "done" =>
                callResult[c].returned /\ callResult[c].value = ParseOfKey(callKey[c])
          /\ (callPc[c] \in {"hit", "return", "done"} /\ store[callKey[c]].kind = "text") =>
                /\ callKey[c] \in DOMAIN products_cache
                /\ products_cache[callKey[c]] = ParseOfKey(callKey[c])

\* Two calls with the same key both missed the cache, both inserted, and
\* both have returned the non-empty parse the cache holds.
C12_Witness ==
    \E c, d \in Callers :
        /\ c # d
        /\ callKey[c] = callKey[d]
        /\ callPc[c] = "done" /\ callPc[d] = "done"
        /\ ~callResult[c].fromCache /\ ~callResult[d].fromCache
        /\ callResult[c].value # <<>>
        /\ callResult[c].value = callResult[d].value
        /\ products_cache[callKey[c]] = callResult[c].value

\* ------------------------------------------------------------------------
\* Claims on lines put into a catalog document (SpecParseInserted)
\* ------------------------------------------------------------------------
\* C13: a blank, whitespace-only or comment-like line put anywhere into a
\* document of well-formed entries, between the start line and the
\* closing-brace line of an entry included, does not change the records
\* _parse_csv_content returns.
C13_InsertedLineIsIgnored ==
    pPc = "done" => products = ParseCsvContent(DocumentOf(docEntries))

\* ------------------------------------------------------------------------
\* Claims on the retry loop of analyze_skin (SpecAnalyze)
\* ------------------------------------------------------------------------
LoopFailedForGood == aPc = "raised" /\ errors # <<>>

\* C14: the retry loop is never left by falling through; every backoff wait
\* lasts 60 s; each failed attempt is followed by one wait, except the
\* failed final attempt, which raises at once; so an attempt other than the
\* first starts after exactly one wait per earlier failure, and nothing is
\* awaited after a success.  When the loop raises, the last attempt was the
\* final one and the status is 429 if its error is a quota error, 500
\* otherwise, whatever the earlier errors were.
C14_OneWaitBetweenAttempts ==
    /\ aPc # "returned_none"
    /\ \A i \in 1..Len(slept) : slept[i] = 60
    /\ Len(slept) = IF LoopFailedForGood THEN Len(errors) - 1 ELSE Len(errors)
    /\ aPc \in {"running", "returned"} => Len(errors) = attempt /\ modelCalls = attempt + 1
    /\ aPc = "sleeping" => Len(errors) = attempt + 1 /\ attempt < max_retries - 1
    /\ LoopFailedForGood =>
          /\ Len(errors) = max_retries
          /\ attempt = max_retries - 1
          /\ raised = HTTPException(IF IsQuotaError(errors[Len(errors)]) THEN 429 ELSE 500)

\* A first attempt failed on an error that is no quota error, one wait of
\* 60 s followed, and the second attempt failed on a quota error: 429.
C14_Witness ==
    /\ entry = "direct"
    /\ aPc = "raised"
    /\ errors = <<{}, {"429"}>>
    /\ slept = <<60>>
    /\ raised = HTTPException(429)

====
